---- MODULE Spec2Model ----
(***************************************************************************)
(* Model of nslsii/ophydv2/providers.py: the path and filename providers   *)
(* that derive a directory path, a filename and a directory-creation depth *)
(* from the proposal metadata, the beamline environment and today's date.  *)
(*                                                                         *)
(* Representation.  A Python str is a sequence of one-character strings,   *)
(* so that "/" and "%" keep the meaning pathlib and strftime give them.    *)
(* An Optional value is <<>> (None) or <<v>>.  A pathlib.Path is the       *)
(* sequence of its parts below the root "/" (every Path built here is      *)
(* absolute).  A dict is a function whose DOMAIN is its key set.           *)
(***************************************************************************)
EXTENDS Integers, Sequences, FiniteSets, TLC

VARIABLES
    environ,    \* os.environ: the two acronym variables, each Optional[str]
    md,         \* the metadata dictionary (RE.md), owned by the caller
    today,      \* the local calendar date date.today() returns
    provider,   \* Optional: the path provider instance under study
    ctor,       \* history: the arguments and environment of its construction
    last        \* the most recent operation with its arguments and outcome

vars == <<environ, md, today, provider, ctor, last>>

\* ------------------------------------------------------------------ bounds
NumDates == 2
NumShortIds == 2

\* ------------------------------------------------------- Python primitives
None == <<>>
Some(v) == <<v>>

os_path_sep == <<"/">>

UpperAlphabet == <<"A","B","C","D","E","F","G","H","I","J","K","L","M",
                   "N","O","P","Q","R","S","T","U","V","W","X","Y","Z">>
LowerAlphabet == <<"a","b","c","d","e","f","g","h","i","j","k","l","m",
                   "n","o","p","q","r","s","t","u","v","w","x","y","z">>

LowerChar(c) ==
    IF \E i \in 1..Len(UpperAlphabet) : UpperAlphabet[i] = c
    THEN LowerAlphabet[CHOOSE i \in 1..Len(UpperAlphabet) : UpperAlphabet[i] = c]
    ELSE c

\* str.lower()
str_lower(s) == [i \in 1..Len(s) |-> LowerChar(s[i])]

DigitChars == <<"0","1","2","3","4","5","6","7","8","9">>

\* str(n) for n >= 0
RECURSIVE Digits(_)
Digits(n) ==
    IF n < 10 THEN <<DigitChars[n + 1]>>
    ELSE Digits(n \div 10) \o <<DigitChars[(n % 10) + 1]>>

Zeros(k) == [i \in 1..k |-> "0"]

\* left-pad a digit string with "0" up to width w; never truncates
ZeroFill(s, w) == IF Len(s) >= w THEN s ELSE Zeros(w - Len(s)) \o s

\* faulty variant of format_06: the scan id formatted without the "06" specification
format_06_Unpadded(n) == IF n < 0 THEN <<"-">> \o Digits(-n) ELSE Digits(n)

\* format(n, "06"): sign-aware zero padding to a minimum width of 6
format_06(n) ==
    IF n < 0 THEN <<"-">> \o ZeroFill(Digits(-n), 5)
    ELSE ZeroFill(Digits(n), 6)

\* date.strftime: conversions %Y %m %d %%, ordinary characters copied; an
\* unknown conversion and a lone trailing "%" are copied as they stand (glibc)
RECURSIVE strftime(_, _)
strftime(d, t) ==
    IF t = <<>> THEN <<>>
    ELSE IF t[1] # "%" THEN <<t[1]>> \o strftime(d, Tail(t))
    ELSE IF Len(t) = 1 THEN <<"%">>
    ELSE LET rest == SubSeq(t, 3, Len(t))
         IN  CASE t[2] = "Y" -> ZeroFill(Digits(d.year), 4) \o strftime(d, rest)
               [] t[2] = "m" -> ZeroFill(Digits(d.month), 2) \o strftime(d, rest)
               [] t[2] = "d" -> ZeroFill(Digits(d.day), 2) \o strftime(d, rest)
               [] t[2] = "%" -> <<"%">> \o strftime(d, rest)
               [] OTHER -> <<"%", t[2]>> \o strftime(d, rest)

\* os.path.join(a, b) on POSIX
os_path_join(a, b) ==
    IF b # <<>> /\ b[1] = "/" THEN b
    ELSE IF a = <<>> \/ a[Len(a)] = "/" THEN a \o b
    ELSE a \o <<"/">> \o b

\* s.split("/")
RECURSIVE SplitSlash(_, _, _, _)
SplitSlash(s, i, acc, cur) ==
    IF i > Len(s) THEN Append(acc, cur)
    ELSE IF s[i] = "/" THEN SplitSlash(s, i + 1, Append(acc, cur), <<>>)
    ELSE SplitSlash(s, i + 1, acc, Append(cur, s[i]))

KeepPart(x) == x # <<>> /\ x # <<".">>

\* the parts pathlib keeps of a string: empty and "." components are dropped
PathParts(s) == SelectSeq(SplitSlash(s, 1, <<>>, <<>>), KeepPart)

\* Path(s) for an absolute s
Path(s) == PathParts(s)

\* Path.__truediv__: an absolute right operand replaces the left one
Path_truediv(p, s) ==
    IF s # <<>> /\ s[1] = "/" THEN PathParts(s) ELSE p \o PathParts(s)

\* ---------------------------------------------------------- YMDGranularity
YMDGranularity_none == 0
YMDGranularity_year == 1
YMDGranularity_month == 2
YMDGranularity_day == 3
YMDGranularity == {YMDGranularity_none, YMDGranularity_year,
                   YMDGranularity_month, YMDGranularity_day}

\* ----------------------------------------------- get_beamline_proposals_dir
os_getenv(e, key, default) == IF e[key] # None THEN e[key][1] ELSE default

get_beamline_proposals_dir(e) ==
    LET beamline_tla ==
            str_lower(os_getenv(e, "ENDSTATION_ACRONYM",
                                os_getenv(e, "BEAMLINE_ACRONYM", <<>>)))
    IN  Path(<<"/","n","s","l","s","2","/","d","a","t","a","/">>
             \o beamline_tla
             \o <<"/","p","r","o","p","o","s","a","l","s","/">>)

\* --------------------------------------------------- generate_date_dir_path
DateTemplate(ymd_separator, granularity) ==
    IF granularity = YMDGranularity_day
    THEN <<"%","Y">> \o ymd_separator \o <<"%","m">> \o ymd_separator \o <<"%","d">>
    ELSE IF granularity = YMDGranularity_month
    THEN <<"%","Y">> \o ymd_separator \o <<"%","m">>
    ELSE IF granularity = YMDGranularity_year
    THEN <<"%","Y">> \o ymd_separator
    ELSE <<>>

\* faulty variant of generate_date_dir_path: the device name joined with ymd_separator
generate_date_dir_path_SeparatorJoin(device_name, ymd_separator, granularity, d) ==
    LET current_date == strftime(d, DateTemplate(ymd_separator, granularity))
    IN  IF device_name = None THEN current_date
        ELSE device_name[1] \o ymd_separator \o current_date

generate_date_dir_path(device_name, ymd_separator, granularity, d) ==
    LET current_date == strftime(d, DateTemplate(ymd_separator, granularity))
    IN  IF device_name = None THEN current_date
        ELSE os_path_join(device_name[1], current_date)

\* --------------------------------------------------------- calls, results
Return(v) == [exc |-> "", value |-> Some(v)]
Raise(e) == [exc |-> e, value |-> None]

\* keyword arguments: a function from the names given to their values
KwGet(kw, name, default) == IF name \in DOMAIN kw THEN kw[name] ELSE default
KwDrop(kw, names) == [k \in DOMAIN kw \ names |-> kw[k]]
KwPut(kw, name, v) ==
    [k \in DOMAIN kw \cup {name} |-> IF k = name THEN v ELSE kw[k]]

\* ------------------------------------------------------- filename providers
ShortUUIDFilenameProvider_init(kw) ==
    [cls |-> "ShortUUIDFilenameProvider",
     _separator |-> KwGet(kw, "separator", <<"_">>)]

\* sid is the value shortuuid.uuid() returns in this call
ShortUUIDFilenameProvider_call(self, device_name, sid) ==
    IF device_name # None
    THEN Return(device_name[1] \o self._separator \o sid)
    ELSE Return(sid)

\* the class defines no __init__ and keeps no attribute of its own
DeviceNameFilenameProvider_init ==
    [cls |-> "DeviceNameFilenameProvider", _separator |-> None]

\* faulty variant of DeviceNameFilenameProvider_call: the device name returned unchecked
DeviceNameFilenameProvider_call_Unchecked(self, device_name) ==
    [exc |-> "", value |-> device_name]

DeviceNameFilenameProvider_call(self, device_name) ==
    IF device_name = None THEN Raise("RuntimeError")
    ELSE Return(device_name[1])

\* filename_provider(device_name): dispatch on the instance's class
FilenameProvider_call(self, device_name, sid) ==
    IF self.cls = "ShortUUIDFilenameProvider"
    THEN ShortUUIDFilenameProvider_call(self, device_name, sid)
    ELSE DeviceNameFilenameProvider_call(self, device_name)

\* ------------------------------------------------------------ PathInfo
PathInfo(directory_path, filename, create_dir_depth) ==
    [directory_path |-> directory_path,
     filename |-> filename,
     create_dir_depth |-> create_dir_depth]

\* ------------------------------------------- ProposalNumYMDPathProvider
\* __init__(filename_provider, metadata_dict, granularity=day,
\* separator=os.path.sep, **kwargs).  kw holds the keyword arguments of the
\* call; the names __init__ does not declare land in **kwargs and go to
\* PathProvider.__init__, a typing.Protocol initialiser that ignores them.
\* The instance keeps a reference to the caller's dictionary, not a copy:
\* _metadata_dict names the one dictionary object, whose content is md.
ProposalNumYMDPathProvider_init(cls, filename_provider, kw, e) ==
    [cls |-> cls,
     _filename_provider |-> filename_provider,
     _metadata_dict |-> "RE.md",
     _granularity |-> KwGet(kw, "granularity", YMDGranularity_day),
     _ymd_separator |-> KwGet(kw, "separator", os_path_sep),
     _beamline_proposals_dir |-> get_beamline_proposals_dir(e),
     _base_name |-> None]

\* faulty variant of create_ymd_device_dirpath: the keys read with dict.get(key, "")
create_ymd_device_dirpath_Get(self, device_name, m, d) ==
    Return(
        Path_truediv(
            Path_truediv(
                Path_truediv(
                    Path_truediv(self._beamline_proposals_dir, KwGet(m, "cycle", <<>>)),
                    KwGet(m, "data_session", <<>>)),
                <<"a","s","s","e","t","s">>),
            generate_date_dir_path(device_name, self._ymd_separator,
                                   self._granularity, d)))

\* faulty variant of create_ymd_device_dirpath: the proposals directory resolved from
\* the environment at every call instead of once in __init__
create_ymd_device_dirpath_EnvAtCall(self, device_name, m, d) ==
    IF "cycle" \notin DOMAIN m THEN Raise("KeyError")
    ELSE IF "data_session" \notin DOMAIN m THEN Raise("KeyError")
    ELSE Return(
        Path_truediv(
            Path_truediv(
                Path_truediv(
                    Path_truediv(get_beamline_proposals_dir(environ), m["cycle"]),
                    m["data_session"]),
                <<"a","s","s","e","t","s">>),
            generate_date_dir_path(device_name, self._ymd_separator,
                                   self._granularity, d)))

\* m is the content of self._metadata_dict and d the date at call time
create_ymd_device_dirpath(self, device_name, m, d) ==
    IF "cycle" \notin DOMAIN m THEN Raise("KeyError")
    ELSE IF "data_session" \notin DOMAIN m THEN Raise("KeyError")
    ELSE Return(
        Path_truediv(
            Path_truediv(
                Path_truediv(
                    Path_truediv(self._beamline_proposals_dir, m["cycle"]),
                    m["data_session"]),
                <<"a","s","s","e","t","s">>),
            generate_date_dir_path(device_name, self._ymd_separator,
                                   self._granularity, d)))

\* the argument list of self._filename_provider() in both __call__ methods
FilenameProviderArgs(device_name) == <<None>>

\* the outcome of a provider call: the exception or the PathInfo, and the
\* argument lists the filename provider was invoked with
Outcome(r, fp_calls) == [exc |-> r.exc, value |-> r.value, fp_calls |-> fp_calls]

ProposalNumYMDPathProvider_call(self, device_name, m, d, sid) ==
    LET directory_path == create_ymd_device_dirpath(self, device_name, m, d)
        fp_args == FilenameProviderArgs(device_name)
        filename == FilenameProvider_call(self._filename_provider, fp_args[1], sid)
    IN  IF directory_path.exc # "" THEN Outcome(directory_path, <<>>)
        ELSE IF filename.exc # "" THEN Outcome(filename, <<fp_args>>)
        ELSE Outcome(Return(PathInfo(directory_path.value[1],
                                     filename.value[1],
                                     - self._granularity)),
                     <<fp_args>>)

\* --------------------------------------- ProposalNumScanNumPathProvider
\* __init__(filename_provider, metadata_dict, base_name="scan",
\* granularity=none, ymd_separator=os.path.sep, **kwargs) passes
\* granularity=, ymd_separator= and **kwargs on to the base __init__
ProposalNumScanNumPathProvider_init(filename_provider, kw, e) ==
    LET base_name == KwGet(kw, "base_name", <<"s","c","a","n">>)
        granularity == KwGet(kw, "granularity", YMDGranularity_none)
        ymd_separator == KwGet(kw, "ymd_separator", os_path_sep)
        kwargs == KwDrop(kw, {"base_name", "granularity", "ymd_separator"})
        base == ProposalNumYMDPathProvider_init(
                    "ProposalNumScanNumPathProvider", filename_provider,
                    KwPut(KwPut(kwargs, "granularity", granularity),
                          "ymd_separator", ymd_separator),
                    e)
    IN  [base EXCEPT !._base_name = Some(base_name)]

\* faulty variant of ScanDirName: the scan id the run started with, kept from then on
ScanDirName_FirstScanId(base_name, scan_id) == base_name \o <<"_">> \o format_06(42)

ScanDirName(base_name, scan_id) == base_name \o <<"_">> \o format_06(scan_id)

\* faulty variant of ScanCreateDirDepth: the scan directory level left out
ScanCreateDirDepth_NoScanLevel(granularity) == - granularity

ScanCreateDirDepth(granularity) == - granularity - 1

ProposalNumScanNumPathProvider_call(self, device_name, m, d, sid) ==
    LET directory_path == create_ymd_device_dirpath(self, device_name, m, d)
        fp_args == FilenameProviderArgs(device_name)
        filename == FilenameProvider_call(self._filename_provider, fp_args[1], sid)
    IN  IF directory_path.exc # "" THEN Outcome(directory_path, <<>>)
        ELSE IF "scan_id" \notin DOMAIN m THEN Outcome(Raise("KeyError"), <<>>)
        ELSE IF filename.exc # "" THEN Outcome(filename, <<fp_args>>)
        ELSE Outcome(Return(PathInfo(
                         Path_truediv(directory_path.value[1],
                                      ScanDirName(self._base_name[1], m["scan_id"])),
                         filename.value[1],
                         ScanCreateDirDepth(self._granularity))),
                     <<fp_args>>)

\* ------------------------------------------------------ NSLS2PathProvider
NSLS2PathProvider_init(kw, e) ==
    ProposalNumYMDPathProvider_init(
        "NSLS2PathProvider", ShortUUIDFilenameProvider_init(<<>>), kw, e)

\* path_provider(device_name): dispatch on the instance's class
PathProvider_call(self, device_name, m, d, sid) ==
    IF self.cls = "ProposalNumScanNumPathProvider"
    THEN ProposalNumScanNumPathProvider_call(self, device_name, m, d, sid)
    ELSE ProposalNumYMDPathProvider_call(self, device_name, m, d, sid)

\* ------------------------------------------------------------- input sets
\* the i-th day of the run: 2024-03-05, 2025-10-10, 2026-05-15, ...
DateOf(i) == [year |-> 2023 + i, month |-> ((7 * i - 5) % 12) + 1, day |-> 5 * i]

\* the identifiers shortuuid.uuid() may return: "u1", "u2", ...
ShortIds == {<<"u">> \o Digits(i) : i \in 1..NumShortIds}

camA == <<"c","a","m","A">>
det1 == <<"d","e","t","1">>
DeviceNameArgs == {None, Some(camA), Some(det1)}

EnvKeys == {"ENDSTATION_ACRONYM", "BEAMLINE_ACRONYM"}
\* values of the acronym variables, the empty string among them
AcronymValues == {<<"F","m","X">>, <<"a","b","c">>, <<>>}
NoEnviron == [k \in EnvKeys |-> None]

Cycles == {<<"2","0","2","4","-","1">>, <<"2","0","2","4","-","2">>}
DataSessions == {<<"p","a","s","s","-","1","2","3">>}
ScanIds == {-5, 42, 999999, 1000000}
MetadataValues(key) ==
    IF key = "cycle" THEN Cycles
    ELSE IF key = "data_session" THEN DataSessions
    ELSE ScanIds
MetadataKeys == {"cycle", "data_session", "scan_id"}

Entry(name, opt) == IF opt = None THEN <<>> ELSE name :> opt[1]

FilenameProviders ==
    {ShortUUIDFilenameProvider_init(<<>>), DeviceNameFilenameProvider_init}

\* keyword arguments of ProposalNumYMDPathProvider(...) and NSLS2PathProvider(...)
YMDKwargs ==
    {Entry("granularity", g) @@ Entry("separator", s) :
        g \in {None, Some(YMDGranularity_none), Some(YMDGranularity_year),
               Some(YMDGranularity_month)},
        s \in {None, Some(<<"-">>)}}

\* keyword arguments of ProposalNumScanNumPathProvider(...)
ScanKwargs ==
    {Entry("base_name", b) @@ Entry("granularity", g)
        @@ Entry("ymd_separator", y) @@ Entry("separator", s) :
        b \in {None, Some(<<"r","u","n">>)},
        g \in {None, Some(YMDGranularity_year), Some(YMDGranularity_month),
               Some(YMDGranularity_day)},
        y \in {None, Some(<<"-">>)},
        s \in {None, Some(<<"-">>)}}

\* --------------------------------------------------------------- the state
NoOp == [op |-> "none", args |-> <<>>, exc |-> "", value |-> None, fp_calls |-> <<>>]

Init ==
    /\ environ \in {NoEnviron, [NoEnviron EXCEPT !["BEAMLINE_ACRONYM"] = Some(<<"a","b","c">>)]}
    /\ md = [cycle |-> <<"2","0","2","4","-","1">>,
             data_session |-> <<"p","a","s","s","-","1","2","3">>,
             scan_id |-> 42]
    /\ today = DateOf(1)
    /\ provider = None
    /\ ctor = None
    /\ last = NoOp

\* ---------------------------------------------------- the caller's actions
\* os.environ[key] = value
SetEnv(key, value) ==
    /\ environ[key] # Some(value)
    /\ environ' = [environ EXCEPT ![key] = Some(value)]
    /\ last' = NoOp
    /\ UNCHANGED <<md, today, provider, ctor>>

\* del os.environ[key]
UnsetEnv(key) ==
    /\ environ[key] # None
    /\ environ' = [environ EXCEPT ![key] = None]
    /\ last' = NoOp
    /\ UNCHANGED <<md, today, provider, ctor>>

\* RE.md[key] = value, done by the experiment-control runtime
SetMetadata(key, value) ==
    /\ IF key \in DOMAIN md THEN md[key] # value ELSE TRUE
    /\ md' = KwPut(md, key, value)
    /\ last' = NoOp
    /\ UNCHANGED <<environ, today, provider, ctor>>

\* del RE.md[key]
DelMetadata(key) ==
    /\ key \in DOMAIN md
    /\ md' = KwDrop(md, {key})
    /\ last' = NoOp
    /\ UNCHANGED <<environ, today, provider, ctor>>

\* midnight passes
Tick ==
    /\ \E i \in 1..(NumDates - 1) : today = DateOf(i) /\ today' = DateOf(i + 1)
    /\ last' = NoOp
    /\ UNCHANGED <<environ, md, provider, ctor>>

Constructed(cls, filename_provider, kw) ==
    Some([cls |-> cls, filename_provider |-> filename_provider, kw |-> kw,
          environ |-> environ])

\* ProposalNumYMDPathProvider(filename_provider, RE.md, **kw)
ConstructYMD(filename_provider, kw) ==
    /\ provider = None
    /\ provider' = Some(ProposalNumYMDPathProvider_init(
                            "ProposalNumYMDPathProvider", filename_provider, kw, environ))
    /\ ctor' = Constructed("ProposalNumYMDPathProvider", filename_provider, kw)
    /\ last' = NoOp
    /\ UNCHANGED <<environ, md, today>>

\* ProposalNumScanNumPathProvider(filename_provider, RE.md, **kw)
ConstructScan(filename_provider, kw) ==
    /\ provider = None
    /\ provider' = Some(ProposalNumScanNumPathProvider_init(filename_provider, kw, environ))
    /\ ctor' = Constructed("ProposalNumScanNumPathProvider", filename_provider, kw)
    /\ last' = NoOp
    /\ UNCHANGED <<environ, md, today>>

\* NSLS2PathProvider(RE.md, **kw)
ConstructNSLS2(kw) ==
    /\ provider = None
    /\ provider' = Some(NSLS2PathProvider_init(kw, environ))
    /\ ctor' = Constructed("NSLS2PathProvider", ShortUUIDFilenameProvider_init(<<>>), kw)
    /\ last' = NoOp
    /\ UNCHANGED <<environ, md, today>>

\* path_provider(device_name), with sid the identifier shortuuid draws
CallPathProvider(device_name, sid) ==
    /\ provider # None
    /\ LET out == PathProvider_call(provider[1], device_name, md, today, sid)
       IN  last' = [op |-> "call", args |-> [device_name |-> device_name],
                    exc |-> out.exc, value |-> out.value, fp_calls |-> out.fp_calls]
    /\ UNCHANGED <<environ, md, today, provider, ctor>>

\* filename_provider(device_name), called directly
CallFilenameProvider(filename_provider, device_name, sid) ==
    /\ LET out == FilenameProvider_call(filename_provider, device_name, sid)
       IN  last' = [op |-> "filename",
                    args |-> [filename_provider |-> filename_provider,
                              device_name |-> device_name],
                    exc |-> out.exc, value |-> out.value, fp_calls |-> <<>>]
    /\ UNCHANGED <<environ, md, today, provider, ctor>>

\* generate_date_dir_path(device_name, ymd_separator, granularity)
CallGenerateDateDirPath(device_name, ymd_separator, granularity) ==
    /\ last' = [op |-> "date_dir",
                args |-> [device_name |-> device_name,
                          ymd_separator |-> ymd_separator,
                          granularity |-> granularity],
                exc |-> "",
                value |-> Some(generate_date_dir_path(device_name, ymd_separator,
                                                      granularity, today)),
                fp_calls |-> <<>>]
    /\ UNCHANGED <<environ, md, today, provider, ctor>>

\* ------------------------------------------------------ the specifications
\* providers used against a metadata dictionary that the runtime mutates
Next ==
    \/ \E fp \in FilenameProviders, kw \in YMDKwargs : ConstructYMD(fp, kw)
    \/ \E fp \in FilenameProviders, kw \in ScanKwargs : ConstructScan(fp, kw)
    \/ \E kw \in YMDKwargs : ConstructNSLS2(kw)
    \/ \E key \in MetadataKeys : \E value \in MetadataValues(key) : SetMetadata(key, value)
    \/ \E key \in MetadataKeys : DelMetadata(key)
    \/ Tick
    \/ \E dn \in {None, Some(camA)}, sid \in ShortIds : CallPathProvider(dn, sid)

Spec == Init /\ [][Next]_vars

\* providers used while the process environment changes
EnvKwargs == {<<>>, "granularity" :> YMDGranularity_none}

NextEnv ==
    \/ \E key \in EnvKeys, value \in AcronymValues : SetEnv(key, value)
    \/ \E key \in EnvKeys : UnsetEnv(key)
    \/ \E kw \in EnvKwargs : ConstructYMD(ShortUUIDFilenameProvider_init(<<>>), kw)
    \/ \E kw \in EnvKwargs : ConstructScan(ShortUUIDFilenameProvider_init(<<>>), kw)
    \/ \E kw \in EnvKwargs : ConstructNSLS2(kw)
    \/ Tick
    \/ \E dn \in {None, Some(camA)}, sid \in ShortIds : CallPathProvider(dn, sid)

SpecEnv == Init /\ [][NextEnv]_vars

\* the module's functions and filename providers called directly
FormatterSeparators == {<<"/">>, <<"-">>, <<"_">>, <<"%">>, <<"-","-">>}

NextFn ==
    \/ \E fp \in FilenameProviders \cup {ShortUUIDFilenameProvider_init("separator" :> <<"-">>)},
          dn \in DeviceNameArgs, sid \in ShortIds : CallFilenameProvider(fp, dn, sid)
    \/ \E dn \in DeviceNameArgs, sep \in FormatterSeparators, g \in YMDGranularity :
          CallGenerateDateDirPath(dn, sep, g)
    \/ Tick

SpecFn == Init /\ [][NextFn]_vars

\* ================================================================ claims
IsCall == last.op = "call"
CallOk == IsCall /\ last.exc = ""
IsScan == ctor # None /\ ctor[1].cls = "ProposalNumScanNumPathProvider"

\* the granularity the provider was constructed with, defaults included
CtorGranularity ==
    KwGet(ctor[1].kw, "granularity",
          IF IsScan THEN YMDGranularity_none ELSE YMDGranularity_day)

\* the base name the scan provider was constructed with, default included
CtorBaseName == KwGet(ctor[1].kw, "base_name", <<"s","c","a","n">>)

\* the parts of a returned path before the device and date parts:
\* the proposals root, the cycle, the data session and "assets"
StaticDepth == Len(provider[1]._beamline_proposals_dir) + 3

IsDigit(c) == \E i \in 1..10 : DigitChars[i] = c
DigitValue(c) == (CHOOSE i \in 1..10 : DigitChars[i] = c) - 1

RECURSIVE DecimalValue(_)
DecimalValue(s) ==
    IF s = <<>> THEN 0
    ELSE 10 * DecimalValue(SubSeq(s, 1, Len(s) - 1)) + DigitValue(s[Len(s)])

AllDigits(s) == \A i \in 1..Len(s) : IsDigit(s[i])

RECURSIVE NumDigits(_)
NumDigits(n) == IF n < 10 THEN 1 ELSE 1 + NumDigits(n \div 10)

Max(a, b) == IF a >= b THEN a ELSE b

\* the text that follows "{base_name}_" in the last part of a scan path
ScanNumberText ==
    LET path == last.value[1].directory_path
        seg == path[Len(path)]
    IN  SubSeq(seg, Len(CtorBaseName) + 2, Len(seg))

ScanSegmentHasBaseName ==
    LET path == last.value[1].directory_path
        seg == path[Len(path)]
    IN  /\ Len(seg) > Len(CtorBaseName)
        /\ SubSeq(seg, 1, Len(CtorBaseName) + 1) = CtorBaseName \o <<"_">>

\* ---------------------------------------------------------------------
\* C1: every path provider hands the device name it was called with to its
\* filename provider, so the ShortUUID filename is "<device><sep><shortid>"
\* and the device-name filename provider yields the device name.
C1_FilenameProviderGetsDeviceName ==
    IsCall =>
        LET dn == last.args.device_name
            fp == ctor[1].filename_provider
        IN  /\ \A i \in 1..Len(last.fp_calls) : last.fp_calls[i] = <<dn>>
            /\ (last.exc = "" /\ dn # None /\ fp.cls = "ShortUUIDFilenameProvider")
                   => \E sid \in ShortIds :
                          last.value[1].filename = dn[1] \o fp._separator \o sid
            /\ (last.exc # "KeyError" /\ dn # None
                    /\ fp.cls = "DeviceNameFilenameProvider")
                   => (last.exc = "" /\ last.value[1].filename = dn[1])

\* C2: the magnitude of create_dir_depth is the number of parts of
\* directory_path that follow the static prefix and the device name, that
\* is, the date-derived parts plus the scan part of the scan provider.
C2_DepthMatchesTrailingSegments ==
    CallOk =>
        LET info == last.value[1]
            device_parts == IF last.args.device_name = None THEN 0 ELSE 1
        IN  - info.create_dir_depth
                = Len(info.directory_path) - StaticDepth - device_parts

\* C3: a successful call returns create_dir_depth = -ordinal(g) from the
\* proposal/date and default providers and -ordinal(g) - 1 from the scan
\* provider, g being the granularity given at construction.
C3_CreateDirDepth ==
    CallOk =>
        last.value[1].create_dir_depth
            = (IF IsScan THEN - CtorGranularity - 1 ELSE - CtorGranularity)

C3_Witness ==
    /\ CallOk /\ IsScan
    /\ CtorGranularity = YMDGranularity_day
    /\ last.value[1].create_dir_depth = -4

\* C4 as claimed: the last part of a scan path is "{base_name}_" followed by
\* exactly six digits whose value is the scan id.
C4_ScanDirSixDigits ==
    (CallOk /\ IsScan) =>
        /\ ScanSegmentHasBaseName
        /\ Len(ScanNumberText) = 6
        /\ AllDigits(ScanNumberText)
        /\ DecimalValue(ScanNumberText) = md["scan_id"]

\* C4 amended: the scan id is zero-padded to a minimum width of six
\* characters: six digits for 0..999999, every digit of a longer id, and
\* for a negative id a "-" followed by the zero-padded digits.
C4_ScanDirZeroPadded ==
    (CallOk /\ IsScan) =>
        LET id == md["scan_id"]
            text == ScanNumberText
        IN  /\ ScanSegmentHasBaseName
            /\ IF id >= 0
               THEN /\ AllDigits(text)
                    /\ DecimalValue(text) = id
                    /\ Len(text) = Max(6, NumDigits(id))
               ELSE /\ text[1] = "-"
                    /\ AllDigits(Tail(text))
                    /\ DecimalValue(Tail(text)) = - id
                    /\ Len(text) = Max(6, NumDigits(- id) + 1)

C4_Witness ==
    /\ CallOk /\ IsScan
    /\ md["scan_id"] = 1000000
    /\ Len(ScanNumberText) = 7

\* C5: a call made while the dictionary lacks cycle or data_session (or
\* scan_id, for the scan provider) ends in KeyError and nothing else: no
\* PathInfo, no call of the filename provider, and the provider and the
\* dictionary are as they were.
C5_MissingKeyRaises ==
    [][ (last'.op = "call"
            /\ (\/ "cycle" \notin DOMAIN md
                \/ "data_session" \notin DOMAIN md
                \/ (IsScan /\ "scan_id" \notin DOMAIN md)))
        => /\ last'.exc = "KeyError"
           /\ last'.value = None
           /\ last'.fp_calls = <<>>
           /\ md' = md
           /\ provider' = provider
           /\ ctor' = ctor ]_vars

C5_Witness ==
    /\ IsCall /\ IsScan
    /\ last.exc = "KeyError"
    /\ DOMAIN md = {"cycle", "data_session"}

\* C6: the device-name filename provider returns the device name it is
\* given, and without a device name raises RuntimeError, which is not the
\* KeyError of a missing metadata key.
C6_DeviceNameFilename ==
    (last.op = "filename"
        /\ last.args.filename_provider.cls = "DeviceNameFilenameProvider")
    => IF last.args.device_name = None
       THEN last.exc = "RuntimeError" /\ last.exc # "KeyError" /\ last.value = None
       ELSE last.exc = "" /\ last.value = last.args.device_name

C6_Witness ==
    /\ last.op = "filename"
    /\ last.args.filename_provider.cls = "DeviceNameFilenameProvider"
    /\ last.args.device_name = None
    /\ last.exc = "RuntimeError"

\* C7: every call leaves the dictionary as it is and builds its path from
\* the cycle, data_session and scan_id the dictionary holds at that call.
C7_ReadsCurrentMetadata ==
    [][ last'.op = "call"
        => /\ md' = md
           /\ last'.exc = ""
                => LET path == last'.value[1].directory_path
                       n == Len(provider[1]._beamline_proposals_dir)
                       seg == path[Len(path)]
                       text == SubSeq(seg, Len(CtorBaseName) + 2, Len(seg))
                   IN  /\ path[n + 1] = md["cycle"]
                       /\ path[n + 2] = md["data_session"]
                       /\ IsScan =>
                            IF md["scan_id"] >= 0
                            THEN DecimalValue(text) = md["scan_id"]
                            ELSE DecimalValue(Tail(text)) = - md["scan_id"] ]_vars

\* a successful scan call made after the runtime changed both the cycle and
\* the scan id the run started with
C7_Witness ==
    /\ CallOk /\ IsScan
    /\ md["scan_id"] = 999999
    /\ md["cycle"] = <<"2","0","2","4","-","2">>

\* C8: the root of every returned path is /nsls2/data/{tla}/proposals with
\* tla taken from the environment as it was at construction: ENDSTATION_ACRONYM
\* lower-cased, else BEAMLINE_ACRONYM lower-cased, else the empty string.
LowerCased ==
    (<<"F","m","X">> :> <<"f","m","x">>) @@ (<<"a","b","c">> :> <<"a","b","c">>)
        @@ (<<>> :> <<>>)

ExpectedRoot(e) ==
    LET tla == IF e["ENDSTATION_ACRONYM"] # None
               THEN LowerCased[e["ENDSTATION_ACRONYM"][1]]
               ELSE IF e["BEAMLINE_ACRONYM"] # None
               THEN LowerCased[e["BEAMLINE_ACRONYM"][1]]
               ELSE <<>>
    IN  \* an empty tla leaves no part of its own in /nsls2/data//proposals/
        << <<"n","s","l","s","2">>, <<"d","a","t","a">> >>
        \o (IF tla = <<>> THEN <<>> ELSE <<tla>>)
        \o << <<"p","r","o","p","o","s","a","l","s">> >>

C8_RootFromConstructionEnv ==
    CallOk =>
        LET root == ExpectedRoot(ctor[1].environ)
            path == last.value[1].directory_path
        IN  /\ Len(path) >= Len(root)
            /\ SubSeq(path, 1, Len(root)) = root

\* a successful call after both variables set at construction were unset
C8_Witness ==
    /\ CallOk
    /\ ctor[1].environ = [ENDSTATION_ACRONYM |-> Some(<<"F","m","X">>),
                          BEAMLINE_ACRONYM |-> Some(<<"a","b","c">>)]
    /\ environ = NoEnviron

\* C9 as claimed: for every separator the date part is YYYY<sep>MM<sep>DD,
\* YYYY<sep>MM, YYYY<sep> or empty, and a device name is put in front of it
\* with "/" between them.
TwoDigits(n) == <<DigitChars[(n \div 10) + 1], DigitChars[(n % 10) + 1]>>
FourDigits(n) == TwoDigits(n \div 100) \o TwoDigits(n % 100)

ExpectedDatePart(sep, g, d) ==
    CASE g = YMDGranularity_day ->
            FourDigits(d.year) \o sep \o TwoDigits(d.month) \o sep \o TwoDigits(d.day)
      [] g = YMDGranularity_month -> FourDigits(d.year) \o sep \o TwoDigits(d.month)
      [] g = YMDGranularity_year -> FourDigits(d.year) \o sep
      [] g = YMDGranularity_none -> <<>>

ExpectedDateDirPath ==
    LET part == ExpectedDatePart(last.args.ymd_separator, last.args.granularity, today)
    IN  IF last.args.device_name = None THEN part
        ELSE last.args.device_name[1] \o <<"/">> \o part

C9_DatePathFormat ==
    last.op = "date_dir" => last.value = Some(ExpectedDateDirPath)

\* C9 amended: the same, for every separator that contains no "%".
C9_DatePathFormatNoPercent ==
    (last.op = "date_dir"
        /\ \A i \in 1..Len(last.args.ymd_separator) : last.args.ymd_separator[i] # "%")
    => last.value = Some(ExpectedDateDirPath)

C9_Witness ==
    /\ last.op = "date_dir"
    /\ last.args.ymd_separator = <<"-">>
    /\ last.args.granularity = YMDGranularity_year
    /\ last.args.device_name = Some(camA)
    /\ last.value = Some(<<"c","a","m","A","/","2","0","2","4","-">>)

\* C10: a scan provider constructed with a granularity and a custom date
\* separator returns the path of the proposal/date provider constructed with
\* the same filename provider, granularity and separator, plus one part.
C10_ScanExtendsYMDPath ==
    (CallOk /\ IsScan /\ "separator" \notin DOMAIN ctor[1].kw) =>
        LET same == ProposalNumYMDPathProvider_init(
                        "ProposalNumYMDPathProvider", ctor[1].filename_provider,
                        ("granularity" :> CtorGranularity)
                            @@ ("separator" :> KwGet(ctor[1].kw, "ymd_separator", os_path_sep)),
                        ctor[1].environ)
            base == create_ymd_device_dirpath(same, last.args.device_name, md, today).value[1]
            path == last.value[1].directory_path
        IN  /\ Len(path) = Len(base) + 1
            /\ SubSeq(path, 1, Len(base)) = base

====
